---- MODULE Spec2Model ----
(***************************************************************************)
(* Verification model of the xbot mention pipeline:                        *)
(*   - StreamHandler (polling scheduler / dispatcher),                     *)
(*   - StateManager  (durable state store),                                *)
(*   - TwitterClient.getMentions (mention source client),                  *)
(*   - RateLimiter   (token buckets),                                      *)
(*   - StreamHandler.postReplyWithRetry (retry engine).                    *)
(* JavaScript runs one synchronous block at a time: every action below is  *)
(* the code executed between two suspension points (await / timer).        *)
(***************************************************************************)
EXTENDS Integers, Sequences, FiniteSets, TLC

\* ------------------------------------------------------------------ bounds
MaxMentions == 2
MaxConcurrent == 2
MaxTimers == 1
MaxTime == 1000
\* token buckets: capacity, refill rate RefillNum / RefillDen tokens per ms,
\* largest amount requested, blocking callers, clock range, credit bound
Capacity == 2
RefillNum == 1
RefillDen == 2
MaxAmount == 2
MaxWaiters == 1
MaxClock == 2
MaxCredit == 0
\* retry engine: the clock range of one exploration
MaxRetryClock == 12000
\* mention processing: longest tweet text, in characters
MaxLen == 2
\* capacity of the deepseek_requests bucket (DEEPSEEK_RATE_LIMIT)
RequestCapacity == 1
\* reply generation: longest generated text, largest configured limit
MaxResponse == 5
MaxLimit == 4

\* ------------------------------------------------- values and constants
\* JavaScript null / undefined for identifiers (ids are 1, 2, ...)
NULL == 0
\* null / undefined for numbers and timestamps (which may be 0)
NONE == -1
\* granularity of the scheduler's clock, in milliseconds
ClockStep == 1000

maxRetries == 3
baseDelay == 1000
maxDelay == 30000
backoffMultiplier == 2
TwitterCeiling == 1500
DeepseekCeiling == 100
TOO_MANY_REQUESTS == 429
UNAUTHORIZED == 401
OK == 200

VARIABLES
  \* StreamHandler fields
  isRunning, pollInterval, lastMentionId, processedMentions, failedMentions,
  \* configManager.getConfig().enabled as seen through the watcher
  enabled,
  \* the event loop: registered interval timers and in-flight pollMentions calls
  timers, nextTimer, polls,
  \* StateManager: in-memory state and the bot-state.json file
  state, disk,
  \* the remote service: number of mentions that exist (ids 1..srv) and their shape
  srv, kinds,
  \* replies posted per mention id
  replies,
  \* wall clock (ms)
  now,
  \* observation: the last control call (start / stop) and what the last
  \* step did to a poll cycle
  lastCtl, ev,
  \* RateLimiter.buckets, the suspended waitForRateLimit calls, the result of
  \* the last canMakeRequest
  buckets, waiters, rlResult,
  \* postReplyWithRetry: the loop counter, where the call is, the pending
  \* sleep, lastError; and what it has done so far
  attempt, rpc, wakeAt, lastError, rstat,
  \* StreamHandler.config; one pollMentions run seen from inside: the array
  \* it iterates, the loop position, where processMention is suspended, and
  \* the calls made so far
  cfg, inbox, pos, ppc, plog,
  \* the last call into the StateManager and how it ended
  sop,
  \* TwitterClient: the getMentions / testConnection calls in flight, and the
  \* number of users/me requests answered with an account id
  calls, lookupsOk,
  \* the last generateResponse call: the limit in force, the text DeepSeek
  \* returned, the value returned, and the text given to replyToTweet
  gen,
  \* the last generateResponseWithRetry call
  grw,
  \* DeepSeekClient: the generateBotResponse calls in flight; the number of
  \* chat/completions requests issued so far and the sum of their estimates
  llm, llmStat

schedVars == <<isRunning, pollInterval, lastMentionId, processedMentions,
               failedMentions, enabled, timers, nextTimer, polls,
               state, disk, srv, kinds, replies, lastCtl, ev>>

rlVars == <<buckets, waiters, rlResult>>

retryVars == <<attempt, rpc, wakeAt, lastError, rstat>>

procVars == <<cfg, inbox, pos, ppc, plog>>

storeVars == <<sop>>

\* the variables of the components modelled on their own
clientVars == <<calls, lookupsOk>>

textVars == <<gen, grw>>

llmVars == <<llm, llmStat>>

extVars == <<storeVars, clientVars, textVars, llmVars>>

vars == <<schedVars, now, rlVars, retryVars, procVars, extVars>>

\* ------------------------------------------------------------ mentions
\* Strings are sequences of characters; an absent value (undefined) is <<>>
\* and a present value v is <<v>>.
Alphabet == {"#", "h", "H", "x"}
ToLowerChar(c) ==
  IF c = "H" THEN "h" ELSE IF c = "A" THEN "a" ELSE IF c = "B" THEN "b" ELSE c
toLowerCase(str) == [i \in 1..Len(str) |-> ToLowerChar(str[i])]
\* a variant of includes that looks for the first character of pat only
includesFirstChar(str, pat) ==
  \E i \in 1..Len(str) : str[i] = pat[1]

\* String.prototype.includes
includes(str, pat) ==
  \E i \in 0..(Len(str) - Len(pat)) : SubSeq(str, i + 1, i + Len(pat)) = pat

\* a property of a JavaScript object (a function from property names)
Prop(obj, f) == IF f \in DOMAIN obj THEN <<obj[f]>> ELSE <<>>

Texts == UNION {[1..n -> Alphabet] : n \in 0..MaxLen}
Handles == {<<"a">>, <<"A">>, <<"b">>, <<"B">>}

\* a tweet of the v2 mentions response with its entry of includes.users
\* (fields id, name, username), if it has one
Tweet(id, text, author) == [id |-> id, text |-> text, author |-> author]

\* getMentions' conversion of a tweet to a TwitterMention: the user is the
\* v2 user object, or {} when none matches author_id
ConvertTweet(tw) ==
  [id_str |-> tw.id,
   text |-> tw.text,
   user |-> [f \in (IF tw.author = <<>> THEN {} ELSE {"username"}) |-> tw.author[1]]]

\* mention.user?.screen_name?.toLowerCase()
ScreenNameLower(mention) ==
  LET sn == Prop(mention.user, "screen_name")
  IN  IF sn = <<>> THEN <<>> ELSE <<toLowerCase(sn[1])>>

\* the bot configuration: account name, hashtag, the allow/deny list
DefaultConfig ==
  [username |-> <<"B">>, hashtag |-> <<"H">>, whitelistEnabled |-> FALSE,
   whitelistMode |-> "allow", whitelist |-> <<>>]

Whitelists == {<<>>} \cup {(<<"a">> :> e) : e \in BOOLEAN}

Configs ==
  {[DefaultConfig EXCEPT !.whitelistEnabled = we, !.whitelistMode = wm,
                         !.whitelist = wl] :
     we \in BOOLEAN, wm \in {"allow", "deny"}, wl \in Whitelists}

\* the mentions of the scheduler model: "ok" has the tag and comes from
\* another account, "notext" has no text field
MentionKinds == {"ok", "notext"}

KindMention(k, id) ==
  ConvertTweet(Tweet(id, IF k = "notext" THEN <<>> ELSE <<<<"#", "h">>>>, <<<<"a">>>>))

Max(a, b) == IF a >= b THEN a ELSE b
Min(a, b) == IF a <= b THEN a ELSE b

RECURSIVE Pow(_, _)
Pow(b, e) == IF e = 0 THEN 1 ELSE b * Pow(b, e - 1)

\* ------------------------------------------------------- StateManager
Services == {"twitter", "deepseek"}

\* the ceiling canMakeApiCall resets a service's counter to
Ceiling(service) == IF service = "twitter" THEN TwitterCeiling ELSE DeepseekCeiling

\* the default state loadState builds at time t (lastUpdated is the time of
\* the load; timestamps are milliseconds, a missing one is NONE)
DefaultState(t) ==
  [lastMentionId |-> NULL, userId |-> NULL, lastPollTime |-> NONE,
   apiCallsRemaining |-> [s \in Services |-> Ceiling(s)],
   rateLimitReset |-> [s \in Services |-> NONE],
   lastUpdated |-> t]

\* What bot-state.json can hold.  The file is <<>> while it does not exist
\* and <<content>> afterwards; content is the value JSON.parse returns for
\* it, or one of two markers: the file cannot be read, its text is not JSON.
Unreadable == [ioError |-> TRUE]
NotJson == [syntaxError |-> TRUE]
\* the JSON text `null`
JsonNull == [isNull |-> TRUE]

\* loadState: the parsed content when the file exists and parses (whatever
\* its shape), the default when it is absent or the try block throws:
\* readFileSync, JSON.parse, or parsed.lastMentionId for the log line when
\* the content is null
loadState(file, t) ==
  IF file = <<>> THEN DefaultState(t)
  ELSE IF file[1] \in {Unreadable, NotJson, JsonNull} THEN DefaultState(t)
  ELSE file[1]

\* this.state.apiCallsRemaining[service] / this.state.rateLimitReset[service]
\* is a TypeError when the state has no such object
Readable(st, field) == field \in DOMAIN st

\* a simple field that is missing reads as undefined
Field(st, field, undef) == IF field \in DOMAIN st THEN st[field] ELSE undef

\* this.state.<field> = value on an object that may lack the field
Assign(st, field, value) ==
  [f \in (DOMAIN st) \cup {field} |-> IF f = field THEN value ELSE st[f]]

\* saveState: stamps lastUpdated, then writes the whole state; a write that
\* throws is caught and logged.  The stamped state and the file it leaves.
\* (JSON.stringify followed by JSON.parse returns an equal value for a state
\* of strings, finite numbers and nulls.)
saveState(st, file, ok, t) ==
  LET stamped == Assign(st, "lastUpdated", t)
  IN  [st |-> stamped, file |-> IF ok THEN <<stamped>> ELSE file]

\* the setters: the assignment, then saveState
setLastMentionId(st, file, mentionId, ok, t) ==
  saveState(Assign(st, "lastMentionId", mentionId), file, ok, t)

setUserId(st, file, userId, ok, t) ==
  saveState(Assign(st, "userId", userId), file, ok, t)

setLastPollTime(st, file, ok, t) ==
  saveState(Assign(st, "lastPollTime", t), file, ok, t)

updateApiCallsRemaining(st, file, service, remaining, ok, t) ==
  saveState([st EXCEPT !.apiCallsRemaining[service] = remaining], file, ok, t)

updateRateLimitReset(st, file, service, resetTime, ok, t) ==
  saveState([st EXCEPT !.rateLimitReset[service] = resetTime], file, ok, t)

\* canMakeApiCall(service): the verdict, the state and the file it leaves
canMakeApiCall(st, file, service, ok, t) ==
  LET remaining == st.apiCallsRemaining[service]
      resetTime == st.rateLimitReset[service]
  IN  IF remaining <= 0
      THEN IF resetTime # NONE /\ t >= resetTime
           THEN LET u == updateApiCallsRemaining(st, file, service,
                                                 Ceiling(service), ok, t)
                IN  [allowed |-> TRUE, st |-> u.st, file |-> u.file]
           ELSE [allowed |-> FALSE, st |-> st, file |-> file]
      ELSE [allowed |-> TRUE, st |-> st, file |-> file]

\* --------------------------------------------------------- TwitterClient
\* response headers x-rate-limit-remaining / x-rate-limit-reset (NONE: absent)
Headers(t) ==
  { [remaining |-> NONE, reset |-> NONE],
    [remaining |-> 0, reset |-> t + ClockStep] }

updateRateLimitInfo(st, file, h, ok, t) ==
  LET s1 == IF h.remaining # NONE
            THEN updateApiCallsRemaining(st, file, "twitter", h.remaining, ok, t)
            ELSE [st |-> st, file |-> file]
  IN  IF h.reset # NONE
      THEN updateRateLimitReset(s1.st, s1.file, "twitter", h.reset, ok, t)
      ELSE s1

\* the error axios rejects with: a response (status, x-rate-limit-reset in
\* epoch seconds) when the server answered, none (<<>>) otherwise
AxiosError(status, resetSec) ==
  [response |-> IF status = 0 THEN <<>>
                ELSE <<[status |-> status, reset |-> resetSec]>>,
   message |-> "Request failed"]

\* error.response of a caught value (undefined, <<>>, when it has none)
ResponseOf(e) == IF "response" \in DOMAIN e THEN e.response ELSE <<>>

\* handleTwitterError: the TwitterError thrown to the caller, {code, message}
handleTwitterError(error) ==
  IF error.response # <<>>
  THEN LET status == error.response[1].status IN
       IF status = TOO_MANY_REQUESTS
       THEN [code |-> status, message |-> "Rate limit exceeded"]
       ELSE IF status = UNAUTHORIZED
       THEN [code |-> status, message |-> "Authentication failed"]
       ELSE [code |-> status, message |-> "Unknown Twitter API error"]
  ELSE [code |-> 0, message |-> error.message]

\* ---------------------------------------------------------- StreamHandler
\* an in-flight pollMentions call: where it is suspended, the sinceId it
\* passed, the newest id of the response in flight, the mention being
\* processed (the rest of the batch is cur+1 .. snap), whether start() awaits it
NoPoll ==
  [pc |-> "none", since |-> NULL, snap |-> NULL, cur |-> NULL, starter |-> FALSE]

NoEvent ==
  [done |-> "none", left |-> 0]

Slots == 1..MaxConcurrent
Active(p) == polls[p].pc # "none"
FreeSlot == CHOOSE p \in Slots : ~Active(p) /\ \A q \in Slots : q < p => Active(q)

\* shouldProcessMention: reads mention.text (a TypeError when it is missing),
\* then the tag test and the self test
shouldProcessMention(c, mention) ==
  IF mention.text = <<>> THEN "throw"
  ELSE LET text == toLowerCase(mention.text[1])
           hashtag == toLowerCase(c.hashtag)
       IN  IF ~includes(text, <<"#">> \o hashtag) THEN "false"
           ELSE IF ScreenNameLower(mention) = <<toLowerCase(c.username)>>
                THEN "false"
           ELSE "true"

\* configManager.isWhitelisted(username)
isWhitelisted(c, username) ==
  IF ~c.whitelistEnabled THEN TRUE
  ELSE IF toLowerCase(username) \notin DOMAIN c.whitelist
       THEN c.whitelistMode = "deny"
  ELSE c.whitelist[toLowerCase(username)] /\ c.whitelistMode = "allow"

\* the whitelist test of processMention:
\* `username && !configManager.isWhitelisted(username)` skips the mention
failsWhitelist(c, mention) ==
  LET username == ScreenNameLower(mention)
  IN  username # <<>> /\ username[1] # <<>> /\ ~isWhitelisted(c, username[1])

\* The for-loop of pollMentions over the mentions m .. hi (oldest first) run
\* up to its next suspension point: processMention skips synchronously,
\* suspends in generateResponseWithRetry, or lets the TypeError of
\* shouldProcessMention escape to pollMentions' catch.
RECURSIVE RunBatch(_, _, _)
RunBatch(m, hi, proc) ==
  IF m > hi
  THEN [pc |-> "finish", cur |-> NULL, left |-> 0, processed |-> proc]
  ELSE IF m \in proc THEN RunBatch(m + 1, hi, proc)
       ELSE IF shouldProcessMention(cfg, KindMention(kinds[m], m)) = "throw"
            THEN [pc |-> "abort", cur |-> NULL, left |-> hi - m + 1, processed |-> proc]
       ELSE IF shouldProcessMention(cfg, KindMention(kinds[m], m)) = "false"
            THEN RunBatch(m + 1, hi, proc \cup {m})
       ELSE IF failsWhitelist(cfg, KindMention(kinds[m], m))
            THEN RunBatch(m + 1, hi, proc \cup {m})
       ELSE [pc |-> "gen", cur |-> m, left |-> hi - m + 1, processed |-> proc]

\* addToFailedMentions
addToFailedMentions(fm, proc, m, t) ==
  LET retries == IF m \in DOMAIN fm THEN fm[m].retries + 1 ELSE 0
      delay == Min(baseDelay * Pow(backoffMultiplier, retries), maxDelay)
  IN  IF retries < maxRetries
      THEN [failed |-> [x \in (DOMAIN fm) \cup {m} |->
                          IF x = m THEN [retries |-> retries, nextRetry |-> t + delay]
                          ELSE fm[x]],
            processed |-> proc]
      ELSE [failed |-> fm, processed |-> proc \cup {m}]

\* processFailedMentions: every entry that is ready is dropped
processFailedMentions(fm, t) ==
  [x \in {y \in DOMAIN fm : fm[y].nextRetry > t} |-> fm[x]]

MapDelete(fm, m) == [x \in (DOMAIN fm) \ {m} |-> fm[x]]

\* start()'s continuation after `await this.pollMentions()`: setInterval
RegisterTimer(doIt) ==
  IF doIt
  THEN /\ pollInterval' = nextTimer
       /\ timers' = timers \cup {nextTimer}
       /\ nextTimer' = nextTimer + 1
  ELSE UNCHANGED <<pollInterval, timers, nextTimer>>

\* the batch loop of poll p goes on with mention m, dedupe set proc and
\* failure map fm; when it ends, processFailedMentions runs and
\* pollMentions returns
ContinueBatch(p, m, proc, fm) ==
  LET r == RunBatch(m, polls[p].snap, proc) IN
  /\ processedMentions' = r.processed
  /\ failedMentions' = IF r.pc = "finish" THEN processFailedMentions(fm, now) ELSE fm
  /\ polls' = [polls EXCEPT ![p] =
        IF r.pc = "gen" THEN [@ EXCEPT !.pc = "gen", !.cur = r.cur] ELSE NoPoll]
  /\ ev' = IF r.pc = "gen" THEN NoEvent
           ELSE [left |-> r.left,
                 done |-> IF r.pc = "abort" THEN "aborted" ELSE "ok"]
  /\ RegisterTimer(polls[p].starter /\ r.pc # "gen")

\* a variant of the request that uses the caller's sinceId only
SendFetchCallerOnly(pr, st) ==
  [pr EXCEPT !.pc = "fetch", !.since = pr.since, !.snap = srv]

\* getMentions: the mentions request with since_id = sinceId || persisted id;
\* the response will hold the mentions that exist when the request is sent
SendFetch(pr, st) ==
  [pr EXCEPT !.pc = "fetch",
             !.since = IF pr.since # NULL THEN pr.since ELSE st.lastMentionId,
             !.snap = srv]

\* pollMentions up to its first network wait: getMentions' quota check,
\* waitForSearch() (the search bucket grants at once), then the users/me
\* request when no account id is cached, the mentions request otherwise
BeginPoll(p, isStarter) ==
  LET c == canMakeApiCall(state, disk, "twitter", TRUE, now) IN
  /\ state' = c.st
  /\ disk' = c.file
  /\ IF c.allowed
     THEN /\ polls' = [polls EXCEPT ![p] =
                 LET pr == [NoPoll EXCEPT !.since = lastMentionId,
                                          !.starter = isStarter]
                 IN  IF c.st.userId = NULL THEN [pr EXCEPT !.pc = "lookup"]
                     ELSE SendFetch(pr, c.st)]
          /\ ev' = NoEvent
          /\ UNCHANGED <<pollInterval, timers, nextTimer>>
     ELSE /\ polls' = polls
          /\ ev' = [NoEvent EXCEPT !.done = "fetchError"]
          /\ RegisterTimer(isStarter)

\* getStatus() of the stream handler
getStreamStatus ==
  [isRunning |-> isRunning,
   lastMentionId |-> lastMentionId,
   processedMentionsCount |-> Cardinality(processedMentions),
   failedMentionsCount |-> Cardinality(DOMAIN failedMentions)]

StartsInFlight == Cardinality({p \in Slots : polls[p].starter})

\* a variant of start() that warns on a running handler and goes on
StartNoReturn ==
  /\ lastCtl' = "start"
  /\ IF ~enabled
     THEN UNCHANGED <<isRunning, pollInterval, timers, nextTimer, polls,
                      state, disk>> /\ ev' = NoEvent
     ELSE /\ \E p \in Slots : ~Active(p)
          /\ isRunning' = TRUE
          /\ IF ~isRunning
             THEN /\ nextTimer + StartsInFlight <= MaxTimers
                  /\ BeginPoll(FreeSlot, TRUE)
             ELSE LET c == canMakeApiCall(state, disk, "twitter", TRUE, now) IN
                  /\ state' = c.st
                  /\ disk' = c.file
                  /\ ev' = [NoEvent EXCEPT !.done = "alreadyRunning"]
                  /\ IF c.allowed
                     THEN /\ polls' = [polls EXCEPT ![FreeSlot] =
                                LET pr == [NoPoll EXCEPT !.since = lastMentionId,
                                                         !.starter = TRUE]
                                IN  IF c.st.userId = NULL
                                    THEN [pr EXCEPT !.pc = "lookup"]
                                    ELSE SendFetch(pr, c.st)]
                          /\ UNCHANGED <<pollInterval, timers, nextTimer>>
                     ELSE /\ polls' = polls
                          /\ RegisterTimer(TRUE)
  /\ UNCHANGED <<lastMentionId, processedMentions, failedMentions, enabled,
                 srv, kinds, replies, now>>
  /\ UNCHANGED <<rlVars, retryVars, procVars, extVars>>

\* start(); ev.done = "alreadyRunning" is the warning of the first return
Start ==
  /\ lastCtl' = "start"
  /\ IF isRunning \/ ~enabled
     THEN /\ UNCHANGED <<isRunning, pollInterval, timers, nextTimer, polls,
                         state, disk>>
          /\ ev' = IF isRunning
                   THEN [NoEvent EXCEPT !.done = "alreadyRunning"]
                   ELSE NoEvent
     ELSE /\ \E p \in Slots : ~Active(p)
          /\ nextTimer + StartsInFlight <= MaxTimers
          /\ isRunning' = TRUE
          /\ BeginPoll(FreeSlot, TRUE)
  /\ UNCHANGED <<lastMentionId, processedMentions, failedMentions, enabled,
                 srv, kinds, replies, now>>
  /\ UNCHANGED <<rlVars, retryVars, procVars, extVars>>

\* stop()
Stop ==
  /\ lastCtl' = "stop"
  /\ ev' = NoEvent
  /\ IF ~isRunning
     THEN UNCHANGED <<isRunning, pollInterval, timers>>
     ELSE /\ isRunning' = FALSE
          /\ timers' = timers \ {pollInterval}
          /\ pollInterval' = NULL
  /\ UNCHANGED <<lastMentionId, processedMentions, failedMentions, enabled,
                 nextTimer, polls, state, disk, srv, kinds, replies, now>>
  /\ UNCHANGED <<rlVars, retryVars, procVars, extVars>>

\* the setInterval callback: pollMentions()
TimerTick ==
  /\ timers # {}
  /\ \E p \in Slots : ~Active(p)
  /\ BeginPoll(FreeSlot, FALSE)
  /\ UNCHANGED <<isRunning, lastMentionId, processedMentions, failedMentions,
                 enabled, srv, kinds, replies, lastCtl, now>>
  /\ UNCHANGED <<rlVars, retryVars, procVars, extVars>>

\* the users/me response
LookupResponse(p, ok) ==
  /\ polls[p].pc = "lookup"
  /\ IF ok
     THEN LET u == setUserId(state, disk, 1, TRUE, now) IN
          /\ state' = u.st
          /\ disk' = u.file
          /\ polls' = [polls EXCEPT ![p] = SendFetch(polls[p], u.st)]
          /\ ev' = NoEvent
          /\ UNCHANGED <<pollInterval, timers, nextTimer>>
     ELSE /\ polls' = [polls EXCEPT ![p] = NoPoll]
          /\ ev' = [NoEvent EXCEPT !.done = "fetchError"]
          /\ RegisterTimer(polls[p].starter)
          /\ UNCHANGED <<state, disk>>
  /\ UNCHANGED <<isRunning, lastMentionId, processedMentions, failedMentions,
                 enabled, srv, kinds, replies, lastCtl, now>>
  /\ UNCHANGED <<rlVars, retryVars, procVars, extVars>>

\* a variant of the failure path that forgets the marker in memory, so
\* that the next poll fetches from the beginning
FetchErrorForgetsMarker(p, status) ==
  /\ polls[p].pc = "fetch"
  /\ handleTwitterError(AxiosError(status, NONE)).code = status
  /\ polls' = [polls EXCEPT ![p] = NoPoll]
  /\ ev' = [NoEvent EXCEPT !.done = "fetchError"]
  /\ RegisterTimer(polls[p].starter)
  /\ lastMentionId' = NULL
  /\ UNCHANGED <<isRunning, processedMentions, failedMentions,
                 enabled, state, disk, srv, kinds, replies, lastCtl, now>>
  /\ UNCHANGED <<rlVars, retryVars, procVars, extVars>>

\* the mentions request fails (429, 401, no response)
FetchError(p, status) ==
  /\ polls[p].pc = "fetch"
  /\ handleTwitterError(AxiosError(status, NONE)).code = status
  /\ polls' = [polls EXCEPT ![p] = NoPoll]
  /\ ev' = [NoEvent EXCEPT !.done = "fetchError"]
  /\ RegisterTimer(polls[p].starter)
  /\ UNCHANGED <<isRunning, lastMentionId, processedMentions, failedMentions,
                 enabled, state, disk, srv, kinds, replies, lastCtl, now>>
  /\ UNCHANGED <<rlVars, retryVars, procVars, extVars>>

\* the mentions response: ids since+1 .. snap, newest first
FetchResponse(p, h) ==
  /\ polls[p].pc = "fetch"
  /\ LET newest == polls[p].snap
         nonEmpty == polls[p].snap > polls[p].since
         s1 == updateRateLimitInfo(state, disk, h, TRUE, now)
         s2 == IF nonEmpty
               THEN setLastMentionId(s1.st, s1.file, newest, TRUE, now)
               ELSE s1
     IN /\ state' = s2.st
        /\ disk' = s2.file
        /\ IF nonEmpty
           THEN /\ lastMentionId' = newest
                /\ ContinueBatch(p, polls[p].since + 1, processedMentions,
                                 failedMentions)
           ELSE /\ polls' = [polls EXCEPT ![p] = NoPoll]
                /\ ev' = [NoEvent EXCEPT !.done = "empty"]
                /\ RegisterTimer(polls[p].starter)
                /\ UNCHANGED <<lastMentionId, processedMentions, failedMentions>>
  /\ UNCHANGED <<isRunning, enabled, srv, kinds, replies, lastCtl, now>>
  /\ UNCHANGED <<rlVars, retryVars, procVars, extVars>>

\* generateResponseWithRetry returns: a text, or null (generateResponse
\* catches every error and returns null)
GenerateDone(p, text) ==
  /\ polls[p].pc = "gen"
  /\ IF text
     THEN /\ polls' = [polls EXCEPT ![p] = [@ EXCEPT !.pc = "post"]]
          /\ ev' = NoEvent
          /\ UNCHANGED <<processedMentions, failedMentions, pollInterval,
                         timers, nextTimer>>
     ELSE ContinueBatch(p, polls[p].cur + 1,
                        processedMentions \cup {polls[p].cur},
                        MapDelete(failedMentions, polls[p].cur))
  /\ UNCHANGED <<isRunning, lastMentionId, enabled, state, disk, srv,
                 kinds, replies, lastCtl, now>>
  /\ UNCHANGED <<rlVars, retryVars, procVars, extVars>>

\* postReplyWithRetry returns (the reply was posted) or throws (it was not)
PostDone(p, ok) ==
  /\ polls[p].pc = "post"
  /\ LET m == polls[p].cur IN
     IF ok
     THEN /\ replies' = [replies EXCEPT ![m] = Min(@ + 1, 2)]
          /\ ContinueBatch(p, m + 1, processedMentions \cup {m},
                           MapDelete(failedMentions, m))
     ELSE /\ replies' = replies
          /\ LET a == addToFailedMentions(failedMentions, processedMentions, m, now)
             IN ContinueBatch(p, m + 1, a.processed, a.failed)
  /\ UNCHANGED <<isRunning, lastMentionId, enabled, state, disk, srv,
                 kinds, lastCtl, now>>
  /\ UNCHANGED <<rlVars, retryVars, procVars, extVars>>

\* a variant of clearCache that also forgets the marker in memory
ClearCacheForgetsMarker ==
  /\ processedMentions' = {}
  /\ failedMentions' = <<>>
  /\ lastMentionId' = NULL
  /\ ev' = [NoEvent EXCEPT !.done = "cleared"]
  /\ UNCHANGED <<isRunning, pollInterval, enabled, timers,
                 nextTimer, polls, state, disk, srv, kinds, replies,
                 lastCtl, now>>
  /\ UNCHANGED <<rlVars, retryVars, cfg, inbox, pos, ppc, plog, extVars>>

\* clearCache()
ClearCache ==
  /\ processedMentions' = {}
  /\ failedMentions' = <<>>
  /\ ev' = [NoEvent EXCEPT !.done = "cleared"]
  /\ UNCHANGED <<isRunning, pollInterval, lastMentionId, enabled, timers,
                 nextTimer, polls, state, disk, srv, kinds, replies,
                 lastCtl, now>>
  /\ UNCHANGED <<rlVars, retryVars, procVars, extVars>>

\* the configuration watcher
SetEnabled(b) ==
  /\ enabled # b
  /\ enabled' = b
  /\ ev' = NoEvent
  /\ UNCHANGED <<isRunning, pollInterval, lastMentionId, processedMentions,
                 failedMentions, timers, nextTimer, polls, state,
                 disk, srv, kinds, replies, lastCtl, now>>
  /\ UNCHANGED <<rlVars, retryVars, procVars, extVars>>

\* somebody mentions the bot
NewMention(k) ==
  /\ srv < MaxMentions
  /\ srv' = srv + 1
  /\ kinds' = [kinds EXCEPT ![srv + 1] = k]
  /\ ev' = NoEvent
  /\ UNCHANGED <<isRunning, pollInterval, lastMentionId, processedMentions,
                 failedMentions, enabled, timers, nextTimer, polls,
                 state, disk, replies, lastCtl, now>>
  /\ UNCHANGED <<rlVars, retryVars, procVars, extVars>>

\* the process dies and is started again: the module-level singletons are
\* rebuilt and StateManager's constructor reloads the file
Restart ==
  /\ isRunning' = FALSE
  /\ pollInterval' = NULL
  /\ lastMentionId' = NULL
  /\ processedMentions' = {}
  /\ failedMentions' = <<>>
  /\ timers' = {}
  /\ polls' = [p \in Slots |-> NoPoll]
  /\ state' = loadState(disk, now)
  /\ lastCtl' = "none"
  /\ ev' = NoEvent
  /\ nextTimer' = 1
  /\ UNCHANGED <<enabled, disk, srv, kinds, replies, now>>
  /\ UNCHANGED <<rlVars, retryVars, procVars, extVars>>

\* time passes
ClockTick ==
  /\ now + ClockStep <= MaxTime
  /\ now' = now + ClockStep
  /\ ev' = NoEvent
  /\ UNCHANGED <<isRunning, pollInterval, lastMentionId, processedMentions,
                 failedMentions, enabled, timers, nextTimer, polls, state,
                 disk, srv, kinds, replies, lastCtl>>
  /\ UNCHANGED <<rlVars, retryVars, procVars, extVars>>

\* ------------------------------------------------------------ RateLimiter
\* Token counts are kept in units of 1/RefillDen token, so that
\* timePassed * refillRate is exact: tokens = units / RefillDen.
Keys == {"twitter_posts"}
TokenAmounts == (-1)..MaxAmount
Waiters == 1..MaxWaiters
CapUnits == Capacity * RefillDen

TokensKey == "deepseek_tokens"
RequestsKey == "deepseek_requests"

\* this.configs.get(key).capacity
ConfigCapacity(k) == IF k = RequestsKey THEN RequestCapacity ELSE Capacity

IdleWaiter == [st |-> "idle", key |-> "", tokens |-> 0, wakeAt |-> NONE]
NoResult == [allowed |-> FALSE, waitTime |-> NONE, remaining |-> NONE]

\* getBucket: the bucket of a key, created full on first use.  debited and
\* createdAt are the ledger of the bucket: the sum of the amounts of its
\* allowed requests and the time it was created.
getBucket(bs, k, t) ==
  IF k \in DOMAIN bs THEN bs[k]
  ELSE [tokens |-> ConfigCapacity(k) * RefillDen, lastRefill |-> t,
        capacity |-> ConfigCapacity(k), debited |-> 0, createdAt |-> t]

refillBucket(b, t) ==
  [b EXCEPT !.tokens = Min(b.capacity * RefillDen,
                           b.tokens + (t - b.lastRefill) * RefillNum),
            !.lastRefill = t]

\* calculateWaitTime: ceil(tokensNeeded / refillRate)
calculateWaitTime(b, tok) ==
  LET needed == tok * RefillDen - b.tokens
  IN  (needed + RefillNum - 1) \div RefillNum

\* a variant of canMakeRequest that grants a request whenever the bucket
\* is not empty
canMakeRequestAnyToken(bs, k, tok, t) ==
  LET b == refillBucket(getBucket(bs, k, t), t)
      allowed == b.tokens > 0
      remaining == Max(0, b.tokens - tok * RefillDen)
      b2 == IF allowed THEN [b EXCEPT !.tokens = remaining, !.debited = @ + tok]
            ELSE b
  IN  [allowed |-> allowed,
       waitTime |-> IF allowed THEN 0 ELSE calculateWaitTime(b2, tok),
       remaining |-> b2.tokens,
       bucket |-> b2]

\* canMakeRequest: the result and the bucket it leaves
canMakeRequest(bs, k, tok, t) ==
  LET b == refillBucket(getBucket(bs, k, t), t)
      allowed == b.tokens >= tok * RefillDen
      remaining == Max(0, b.tokens - tok * RefillDen)
      b2 == IF allowed THEN [b EXCEPT !.tokens = remaining, !.debited = @ + tok]
            ELSE b
  IN  [allowed |-> allowed,
       waitTime |-> IF allowed THEN 0 ELSE calculateWaitTime(b2, tok),
       remaining |-> b2.tokens,
       bucket |-> b2]

SetBucket(bs, k, b) == [x \in (DOMAIN bs) \cup {k} |-> IF x = k THEN b ELSE bs[x]]

ResultOf(r) == [allowed |-> r.allowed, waitTime |-> r.waitTime, remaining |-> r.remaining]

\* the ledger stays within the explored range
WithinCredit(r) == r.bucket.debited >= -MaxCredit

\* canMakeRequest(key, tokens) called by a non-blocking caller; rlResult is
\* the result it returns
CanMakeRequest(k, tok) ==
  LET r == canMakeRequest(buckets, k, tok, now) IN
  /\ WithinCredit(r)
  /\ buckets' = SetBucket(buckets, k, r.bucket)
  /\ rlResult' = ResultOf(r)
  /\ UNCHANGED <<waiters, now, schedVars, retryVars, procVars, extVars>>

\* waitForRateLimit(key, tokens): returns when allowed, else arms a timer
\* for waitTime and tries again
WaitForRateLimit(w, k, tok) ==
  /\ waiters[w].st = "idle"
  /\ LET r == canMakeRequest(buckets, k, tok, now) IN
     /\ WithinCredit(r)
     /\ buckets' = SetBucket(buckets, k, r.bucket)
     /\ waiters' = [waiters EXCEPT ![w] =
          IF r.allowed THEN IdleWaiter
          ELSE [st |-> "sleep", key |-> k, tokens |-> tok, wakeAt |-> now + r.waitTime]]
  /\ UNCHANGED <<rlResult, now, schedVars, retryVars, procVars, extVars>>

\* the setTimeout callback of a suspended waitForRateLimit
TimerFired(w) ==
  /\ waiters[w].st = "sleep"
  /\ now >= waiters[w].wakeAt
  /\ LET k == waiters[w].key
         tok == waiters[w].tokens
         r == canMakeRequest(buckets, k, tok, now) IN
     /\ buckets' = SetBucket(buckets, k, r.bucket)
     /\ waiters' = [waiters EXCEPT ![w] =
          IF r.allowed THEN IdleWaiter
          ELSE [@ EXCEPT !.wakeAt = now + r.waitTime]]
  /\ UNCHANGED <<rlResult, now, schedVars, retryVars, procVars, extVars>>

\* getStatus(key)
GetStatus(k) ==
  /\ buckets' = SetBucket(buckets, k, refillBucket(getBucket(buckets, k, now), now))
  /\ UNCHANGED <<rlResult, waiters, now, schedVars, retryVars, procVars, extVars>>

\* reset(key)
ResetKey(k) ==
  /\ buckets' = [x \in (DOMAIN buckets) \ {k} |-> buckets[x]]
  /\ UNCHANGED <<rlResult, waiters, now, schedVars, retryVars, procVars, extVars>>

\* a millisecond passes
RLTick ==
  /\ now < MaxClock
  /\ now' = now + 1
  /\ UNCHANGED <<buckets, waiters, rlResult, schedVars, retryVars, procVars, extVars>>

\* ----------------------------------------------- postReplyWithRetry
\* what a call of postReplyWithRetry has done so far: calls of postReply,
\* failures by kind, the reset time of the last 429, the delays it slept
\* and the error it threw in the end (<<>>: none)
NoStat ==
  [calls |-> 0, fails |-> 0, rateLimited |-> 0, notBefore |-> NONE,
   sleeps |-> <<>>, thrown |-> <<>>]

\* new Error(`Failed to post reply after ${maxRetries} attempts: ${lastError}`)
FinalError(last) == <<[attempts |-> maxRetries, lastError |-> last]>>

\* what one call of postReply can end with: the HTTP status of the answer
\* (0: no answer), with the reset time the server announces, in seconds
\* after the current second
CREATED == 201
INTERNAL_SERVER_ERROR == 500
PostOutcomes == {CREATED, 0, UNAUTHORIZED, TOO_MANY_REQUESTS, INTERNAL_SERVER_ERROR}
ResetAfter == {1, 5}

\* a variant of the delay whose exponent is the attempt number itself
BackoffDelayFromAttempt(a) == Min(baseDelay * Pow(backoffMultiplier, a), maxDelay)

\* the delay slept after failed attempt a
BackoffDelay(a) == Min(baseDelay * Pow(backoffMultiplier, a - 1), maxDelay)

\* a variant of the test that also sleeps after the last attempt
RetriesLeftInclusive(a) == a <= maxRetries

\* `attempt < this.retryConfig.maxRetries`: a failed attempt is followed by
\* a sleep and another attempt
RetriesLeft(a) == a < maxRetries

\* postReplyWithRetry(mentionId, response) is called
PostReplyWithRetry ==
  /\ rpc \in {"idle", "returned", "thrown"}
  /\ now <= MaxRetryClock
  /\ attempt' = 1
  /\ rpc' = "call"
  /\ lastError' = "null"
  /\ wakeAt' = NONE
  /\ rstat' = NoStat
  /\ UNCHANGED <<now, schedVars, rlVars, procVars, extVars>>

\* one pass of the loop body: postReply -> replyToTweet -> postTweet, whose
\* catch turns the axios error into a TwitterError before it is thrown
TryPost(outcome, secs) ==
  /\ rpc = "call"
  /\ IF outcome = CREATED
     THEN /\ rpc' = "returned"
          /\ rstat' = [rstat EXCEPT !.calls = @ + 1, !.notBefore = NONE]
          /\ UNCHANGED <<lastError, wakeAt>>
     ELSE LET resetSec == (now \div 1000) + secs
              error == handleTwitterError(AxiosError(outcome, resetSec))
              is429 == outcome = TOO_MANY_REQUESTS
              resp == ResponseOf(error)
              counted == [rstat EXCEPT
                 !.calls = @ + 1,
                 !.fails = IF is429 THEN @ ELSE @ + 1,
                 !.rateLimited = IF is429 THEN @ + 1 ELSE @,
                 !.notBefore = IF is429 THEN resetSec * 1000 ELSE NONE]
          IN
          /\ lastError' = error.message
          /\ IF resp # <<>> /\ resp[1].status = TOO_MANY_REQUESTS
                /\ resp[1].reset # NONE
             THEN \* sleep until the reset time, then `continue`
                  LET waitTime == Max(resp[1].reset * 1000 - now, 0) IN
                  /\ wakeAt' = now + waitTime
                  /\ rpc' = "sleep"
                  /\ rstat' = [counted EXCEPT !.sleeps = Append(@, waitTime)]
             ELSE IF RetriesLeft(attempt)
             THEN /\ wakeAt' = now + BackoffDelay(attempt)
                  /\ rpc' = "sleep"
                  /\ rstat' = [counted EXCEPT
                                 !.sleeps = Append(@, BackoffDelay(attempt))]
             ELSE \* the loop ends: the final error is thrown
                  /\ wakeAt' = NONE
                  /\ rpc' = "thrown"
                  /\ rstat' = [counted EXCEPT !.thrown = FinalError(error.message)]
  /\ UNCHANGED <<attempt, now, schedVars, rlVars, procVars, extVars>>

\* the sleep ends: the for statement increments attempt and tests it
WakeUp ==
  /\ rpc = "sleep"
  /\ now' = Max(now, wakeAt)
  /\ wakeAt' = NONE
  /\ attempt' = attempt + 1
  /\ rpc' = IF attempt + 1 <= maxRetries THEN "call" ELSE "thrown"
  /\ rstat' = IF attempt + 1 <= maxRetries THEN rstat
              ELSE [rstat EXCEPT !.thrown = FinalError(lastError)]
  /\ UNCHANGED <<lastError, schedVars, rlVars, procVars, extVars>>

\* ------------------------------------------- one batch, mention by mention
\* the scheduler's variables that processing a batch does not touch
batchFrame == <<isRunning, pollInterval, enabled, timers, nextTimer, polls,
                state, disk, srv, kinds, replies, lastCtl, ev>>

\* an entry of plog: processMention was called for / returned from a mention
\* ("begin", "end"), threw out of it ("throw"), called
\* generateResponseWithRetry ("gen") or postReplyWithRetry ("post")
Event(op, id) == [op |-> op, id |-> id]

\* a variant that iterates the response in the order it was returned
KeepOrder(seq) == seq

\* Array.prototype.reverse
Reverse(seq) == [i \in 1..Len(seq) |-> seq[Len(seq) + 1 - i]]

\* the ids of a set, newest (largest) first
RECURSIVE NewestFirst(_)
NewestFirst(S) ==
  IF S = {} THEN <<>>
  ELSE LET hi == CHOOSE x \in S : \A y \in S : y <= x
       IN  <<hi>> \o NewestFirst(S \ {hi})

\* mentions responses: one tweet of any shape; or any number of tweets,
\* newest first, each with the tag, without it or without a text
SingleResponses ==
  {<<Tweet(1, t, a)>> : t \in {<<>>} \cup {<<x>> : x \in Texts},
                        a \in {<<>>} \cup {<<h>> : h \in Handles}}

BatchTexts == {<<>>, <<<<"#", "h">>>>, <<<<"x">>>>}

BatchResponses ==
  UNION {LET ids == NewestFirst(S) IN
         {[i \in 1..Len(ids) |-> Tweet(ids[i], f[i], <<<<"a">>>>)] :
            f \in [1..Len(ids) -> BatchTexts]} : S \in SUBSET (1..MaxMentions)}

\* the for-loop of pollMentions from position i of the array box up to the
\* next suspension point, with dedupe set proc, failure map fm and log
RECURSIVE ProcessLoop(_, _, _, _, _, _)
ProcessLoop(c, box, i, proc, fm, log) ==
  IF i > Len(box)
  THEN [ppc |-> "done", pos |-> i, log |-> log, processed |-> proc,
        failed |-> processFailedMentions(fm, now)]
  ELSE LET mention == box[i]
           id == mention.id_str
           begun == Append(log, Event("begin", id))
           ended == Append(begun, Event("end", id))
       IN  IF id \in proc THEN ProcessLoop(c, box, i + 1, proc, fm, ended)
           ELSE IF shouldProcessMention(c, mention) = "throw"
                THEN [ppc |-> "done", pos |-> i,
                      log |-> Append(begun, Event("throw", id)),
                      processed |-> proc, failed |-> fm]
           ELSE IF shouldProcessMention(c, mention) = "false"
                THEN ProcessLoop(c, box, i + 1, proc \cup {id}, fm, ended)
           ELSE IF failsWhitelist(c, mention)
                THEN ProcessLoop(c, box, i + 1, proc \cup {id}, fm, ended)
           ELSE [ppc |-> "gen", pos |-> i,
                 log |-> Append(begun, Event("gen", id)),
                 processed |-> proc, failed |-> fm]

\* the loop goes on behind the mention at pos
ResumeLoop(proc, fm, log) ==
  LET r == ProcessLoop(cfg, inbox, pos + 1, proc, fm, log) IN
  /\ pos' = r.pos
  /\ ppc' = r.ppc
  /\ plog' = r.log
  /\ processedMentions' = r.processed
  /\ failedMentions' = r.failed

\* the configuration watcher replaces this.config
SetConfig(c) ==
  /\ ppc = "idle"
  /\ c # cfg
  /\ cfg' = c
  /\ UNCHANGED <<inbox, pos, ppc, plog, schedVars, now, rlVars, retryVars, extVars>>

\* getMentions returns to pollMentions: the marker, reverse(), and the loop
\* up to its first suspension
MentionsFetched(resp) ==
  /\ ppc = "idle"
  /\ IF resp = <<>>
     THEN /\ ppc' = "done"
          /\ UNCHANGED <<inbox, pos, plog, lastMentionId, processedMentions,
                         failedMentions>>
     ELSE LET mentions == [i \in 1..Len(resp) |-> ConvertTweet(resp[i])]
              box == Reverse(mentions)
              r == ProcessLoop(cfg, box, 1, processedMentions, failedMentions, <<>>)
          IN  /\ lastMentionId' = mentions[1].id_str
              /\ inbox' = box
              /\ pos' = r.pos
              /\ ppc' = r.ppc
              /\ plog' = r.log
              /\ processedMentions' = r.processed
              /\ failedMentions' = r.failed
  /\ UNCHANGED <<cfg, batchFrame, now, rlVars, retryVars, extVars>>

\* pollMentions returns (after the loop, or from its catch block)
PollReturns ==
  /\ ppc = "done"
  /\ ppc' = "idle"
  /\ inbox' = <<>>
  /\ pos' = 0
  /\ plog' = <<>>
  /\ UNCHANGED <<cfg, schedVars, now, rlVars, retryVars, extVars>>

\* generateResponseWithRetry returns a text or null
GenerateReturns(text) ==
  /\ ppc = "gen"
  /\ LET id == inbox[pos].id_str IN
     IF text
     THEN /\ ppc' = "post"
          /\ plog' = Append(plog, Event("post", id))
          /\ UNCHANGED <<pos, processedMentions, failedMentions>>
     ELSE ResumeLoop(processedMentions \cup {id}, MapDelete(failedMentions, id),
                     Append(plog, Event("end", id)))
  /\ UNCHANGED <<cfg, inbox, lastMentionId, batchFrame, now, rlVars, retryVars, extVars>>

\* postReplyWithRetry returns or throws
PostReturns(ok) ==
  /\ ppc = "post"
  /\ LET id == inbox[pos].id_str
         a == addToFailedMentions(failedMentions, processedMentions, id, now)
     IN  IF ok
         THEN ResumeLoop(processedMentions \cup {id}, MapDelete(failedMentions, id),
                         Append(plog, Event("end", id)))
         ELSE ResumeLoop(a.processed, a.failed, Append(plog, Event("end", id)))
  /\ UNCHANGED <<cfg, inbox, lastMentionId, batchFrame, now, rlVars, retryVars, extVars>>

\* ------------------------------------- the StateManager and its storage
\* the last call: which method, for which service, whether it threw, and
\* what a getter returned / canMakeApiCall answered
NoOp == [op |-> "none", service |-> "", threw |-> FALSE, ret |-> NONE,
         allowed |-> FALSE]

Setters == {"setLastMentionId", "setUserId", "setLastPollTime",
            "updateApiCallsRemaining", "updateRateLimitReset"}

\* everything a store call leaves alone
storeFrame == <<isRunning, pollInterval, lastMentionId, processedMentions,
                failedMentions, enabled, timers, nextTimer, polls, srv, kinds,
                replies, lastCtl, ev, rlVars, retryVars, procVars, clientVars,
                textVars, llmVars>>

Called(op, service) == [NoOp EXCEPT !.op = op, !.service = service]

\* the call returns, leaving state and file r
Commit(op, service, r) ==
  /\ state' = r.st
  /\ disk' = r.file
  /\ sop' = Called(op, service)

\* the call ends with a TypeError before it changed anything
Throw(op, service) ==
  /\ sop' = [Called(op, service) EXCEPT !.threw = TRUE]
  /\ UNCHANGED <<state, disk>>

\* the values callers pass: ids, x-rate-limit-remaining, x-rate-limit-reset
RemainingValues == {0}
ResetValues == {ClockStep}

\* files that are not a PersistentState record: unreadable, not JSON, the
\* JSON null, the empty object, an object without the per-service objects,
\* an object without rateLimitReset
DamagedContents ==
  {Unreadable, NotJson, JsonNull, <<>>,
   [lastMentionId |-> 1, userId |-> 1],
   [lastMentionId |-> 1, userId |-> 1,
    apiCallsRemaining |-> [s \in Services |-> 0]]}

\* ok: whether fs.writeFileSync succeeds
SetLastMentionId(mentionId, ok) ==
  /\ Commit("setLastMentionId", "",
            setLastMentionId(state, disk, mentionId, ok, now))
  /\ UNCHANGED <<now, storeFrame>>

SetUserId(userId, ok) ==
  /\ Commit("setUserId", "", setUserId(state, disk, userId, ok, now))
  /\ UNCHANGED <<now, storeFrame>>

SetLastPollTime(ok) ==
  /\ Commit("setLastPollTime", "", setLastPollTime(state, disk, ok, now))
  /\ UNCHANGED <<now, storeFrame>>

UpdateApiCallsRemaining(service, remaining, ok) ==
  /\ IF Readable(state, "apiCallsRemaining")
     THEN Commit("updateApiCallsRemaining", service,
                 updateApiCallsRemaining(state, disk, service, remaining, ok, now))
     ELSE Throw("updateApiCallsRemaining", service)
  /\ UNCHANGED <<now, storeFrame>>

UpdateRateLimitReset(service, resetTime, ok) ==
  /\ IF Readable(state, "rateLimitReset")
     THEN Commit("updateRateLimitReset", service,
                 updateRateLimitReset(state, disk, service, resetTime, ok, now))
     ELSE Throw("updateRateLimitReset", service)
  /\ UNCHANGED <<now, storeFrame>>

\* canMakeApiCall(service): both getters run before the test
CanMakeApiCall(service, ok) ==
  /\ IF Readable(state, "apiCallsRemaining") /\ Readable(state, "rateLimitReset")
     THEN LET c == canMakeApiCall(state, disk, service, ok, now) IN
          /\ state' = c.st
          /\ disk' = c.file
          /\ sop' = [Called("canMakeApiCall", service) EXCEPT !.allowed = c.allowed]
     ELSE Throw("canMakeApiCall", service)
  /\ UNCHANGED <<now, storeFrame>>

\* getLastMentionId / getUserId
GetId(field) ==
  /\ sop' = [Called("get", field) EXCEPT !.ret = Field(state, field, NULL)]
  /\ UNCHANGED <<state, disk, now, storeFrame>>

\* the process is started again: the constructor loads the file
Reload ==
  /\ state' = loadState(disk, now)
  /\ sop' = Called("load", "")
  /\ UNCHANGED <<disk, now, storeFrame>>

\* the file is removed, or replaced by something that is not a record
DamageFile(file) ==
  /\ disk # file
  /\ disk' = file
  /\ sop' = NoOp
  /\ UNCHANGED <<state, now, storeFrame>>

StoreTick ==
  /\ now + ClockStep <= MaxTime
  /\ now' = now + ClockStep
  /\ sop' = NoOp
  /\ UNCHANGED <<state, disk, storeFrame>>

\* --------------------------------- TwitterClient: getMentions, testConnection
\* the callers of the client: the scheduler's pollMentions, and the
\* operator's health check / bot test (testConnection, getMentions(5))
CallIds == {"poll", "test"}
SearchKey == "twitter_search"

\* a call: where it is suspended, its sinceId argument, the since_id it
\* sent, the wake-up time of waitForSearch; and what it did so far: denials
\* by the bucket, debits of the bucket, network requests issued, how it
\* ended, the server's last answer and the error it threw
NoCall ==
  [kind |-> "none", pc |-> "none", sinceId |-> NULL, since |-> NULL,
   wakeAt |-> NONE, waits |-> 0, debits |-> 0, requests |-> 0,
   outcome |-> "none", answer |-> <<>>, error |-> <<>>]

\* everything the client leaves alone
clientFrame == <<isRunning, pollInterval, lastMentionId, processedMentions,
                 failedMentions, enabled, timers, nextTimer, polls, srv,
                 kinds, replies, lastCtl, ev, waiters, rlResult, retryVars,
                 procVars, storeVars, textVars, llmVars>>

\* the call is over
Ended(cl, how) ==
  [cl EXCEPT !.pc = "done", !.outcome = how, !.wakeAt = NONE,
             !.sinceId = NULL, !.since = NULL]

\* the mentions request, with since_id = sinceId || stateManager.getLastMentionId()
MentionsRequest(cl, st) ==
  [cl EXCEPT !.pc = "fetch", !.requests = @ + 1,
             !.since = IF cl.sinceId # NULL THEN cl.sinceId ELSE st.lastMentionId]

\* getMentions behind waitForSearch: users/me when no account id is cached,
\* the mentions request otherwise
FirstRequest(cl, st) ==
  IF st.userId = NULL
  THEN [cl EXCEPT !.pc = "lookup", !.requests = @ + 1, !.wakeAt = NONE]
  ELSE MentionsRequest([cl EXCEPT !.wakeAt = NONE], st)

\* a variant of waitForRateLimit that goes on without a grant
waitForRateLimitNoGrant(cl, r, st, t) ==
  FirstRequest([cl EXCEPT !.debits = @ + (IF r.allowed THEN 1 ELSE 0)], st)

\* waitForRateLimit with the result r of canMakeRequest: return when
\* allowed, otherwise setTimeout(waitTime) and try again
waitForRateLimit(cl, r, st, t) ==
  IF r.allowed
  THEN FirstRequest([cl EXCEPT !.debits = @ + 1], st)
  ELSE [cl EXCEPT !.pc = "wait", !.wakeAt = t + r.waitTime, !.waits = @ + 1]

\* getMentions(count, sinceId) up to its first suspension
GetMentions(c, sinceId) ==
  /\ calls[c].kind = "none"
  /\ LET q == canMakeApiCall(state, disk, "twitter", TRUE, now)
         r == canMakeRequest(buckets, SearchKey, 1, now)
         cl == [NoCall EXCEPT !.kind = "getMentions", !.sinceId = sinceId]
     IN  /\ state' = q.st
         /\ disk' = q.file
         /\ IF ~q.allowed
            THEN \* throw new Error('Rate limit exceeded')
                 /\ calls' = [calls EXCEPT ![c] = Ended(cl, "refused")]
                 /\ UNCHANGED buckets
            ELSE /\ buckets' = SetBucket(buckets, SearchKey, r.bucket)
                 /\ calls' = [calls EXCEPT ![c] = waitForRateLimit(cl, r, q.st, now)]
  /\ UNCHANGED <<lookupsOk, now, clientFrame>>

\* the timer of a suspended waitForSearch fires
SearchTimer(c) ==
  /\ calls[c].pc = "wait"
  /\ now >= calls[c].wakeAt
  /\ LET r == canMakeRequest(buckets, SearchKey, 1, now) IN
     /\ buckets' = SetBucket(buckets, SearchKey, r.bucket)
     /\ calls' = [calls EXCEPT ![c] = waitForRateLimit(calls[c], r, state, now)]
  /\ UNCHANGED <<state, disk, lookupsOk, now, clientFrame>>

\* what the server said: the status and x-rate-limit-reset (epoch seconds)
Answer(status, resetSec) == <<[status |-> status, reset |-> resetSec]>>

\* the users/me request of getMentions is answered
LookupAnswer(c, status, secs) ==
  /\ calls[c].kind = "getMentions"
  /\ calls[c].pc = "lookup"
  /\ LET resetSec == (now \div 1000) + secs
         cl == [calls[c] EXCEPT !.answer = Answer(status, resetSec)]
     IN  IF status = OK
         THEN LET u == setUserId(state, disk, 1, TRUE, now) IN
              /\ state' = u.st
              /\ disk' = u.file
              /\ lookupsOk' = Min(lookupsOk + 1, 2)
              /\ calls' = [calls EXCEPT ![c] = MentionsRequest(cl, u.st)]
         ELSE /\ calls' = [calls EXCEPT ![c] =
                   [Ended(cl, "threw") EXCEPT
                      !.error = <<handleTwitterError(AxiosError(status, resetSec))>>]]
              /\ UNCHANGED <<state, disk, lookupsOk>>
  /\ UNCHANGED <<buckets, now, clientFrame>>

\* the mentions request is answered: with headers h and the newest id of
\* the mentions it holds (NULL: none), or with an error status
FetchAnswer(c, status, secs, h, newest) ==
  /\ calls[c].pc = "fetch"
  /\ LET resetSec == (now \div 1000) + secs
         cl == [calls[c] EXCEPT !.answer = Answer(status, resetSec)]
     IN  IF status = OK
         THEN /\ newest = NULL \/ newest > calls[c].since
              /\ LET s1 == updateRateLimitInfo(state, disk, h, TRUE, now)
                     s2 == IF newest # NULL
                           THEN setLastMentionId(s1.st, s1.file, newest, TRUE, now)
                           ELSE s1
                 IN  /\ state' = s2.st
                     /\ disk' = s2.file
              /\ calls' = [calls EXCEPT ![c] = Ended(cl, "returned")]
         ELSE /\ calls' = [calls EXCEPT ![c] =
                   [Ended(cl, "threw") EXCEPT
                      !.error = <<handleTwitterError(AxiosError(status, resetSec))>>]]
              /\ UNCHANGED <<state, disk>>
  /\ UNCHANGED <<buckets, lookupsOk, now, clientFrame>>

\* testConnection() up to its first suspension
TestConnection(c) ==
  /\ calls[c].kind = "none"
  /\ LET q == canMakeApiCall(state, disk, "twitter", TRUE, now)
         cl == [NoCall EXCEPT !.kind = "testConnection"]
     IN  /\ state' = q.st
         /\ disk' = q.file
         /\ calls' = [calls EXCEPT ![c] =
               IF ~q.allowed THEN Ended(cl, "refused")
               ELSE IF q.st.userId # NULL THEN Ended(cl, "returned")
               ELSE [cl EXCEPT !.pc = "lookup", !.requests = @ + 1]]
  /\ UNCHANGED <<buckets, lookupsOk, now, clientFrame>>

\* the users/me request of testConnection is answered
ConnectionAnswer(c, status, secs, h) ==
  /\ calls[c].kind = "testConnection"
  /\ calls[c].pc = "lookup"
  /\ LET resetSec == (now \div 1000) + secs
         cl == [calls[c] EXCEPT !.answer = Answer(status, resetSec)]
     IN  IF status = OK
         THEN LET s1 == updateRateLimitInfo(state, disk, h, TRUE, now)
                  u == setUserId(s1.st, s1.file, 1, TRUE, now)
              IN  /\ state' = u.st
                  /\ disk' = u.file
                  /\ lookupsOk' = Min(lookupsOk + 1, 2)
                  /\ calls' = [calls EXCEPT ![c] = Ended(cl, "returned")]
         ELSE /\ calls' = [calls EXCEPT ![c] = Ended(cl, "failed")]
              /\ UNCHANGED <<state, disk, lookupsOk>>
  /\ UNCHANGED <<buckets, now, clientFrame>>

\* the caller has taken the result
CallReturns(c) ==
  /\ calls[c].pc = "done"
  /\ calls' = [calls EXCEPT ![c] = NoCall]
  /\ UNCHANGED <<state, disk, buckets, lookupsOk, now, clientFrame>>

\* ------------------------------------------------------ reply generation
\* String.prototype.trim
Whitespace == {" "}
RECURSIVE trimStart(_)
trimStart(str) ==
  IF str # <<>> /\ Head(str) \in Whitespace THEN trimStart(Tail(str)) ELSE str
RECURSIVE trimEnd(_)
trimEnd(str) ==
  IF str # <<>> /\ str[Len(str)] \in Whitespace
  THEN trimEnd(SubSeq(str, 1, Len(str) - 1))
  ELSE str
trim(str) == trimEnd(trimStart(str))

\* String.prototype.substring: an index below 0 counts as 0, one above the
\* length as the length, and the two are swapped when start > end
Clamp(i, len) == IF i < 0 THEN 0 ELSE IF i > len THEN len ELSE i
substring(str, start, end) ==
  LET a == Clamp(start, Len(str))
      b == Clamp(end, Len(str))
  IN SubSeq(str, Min(a, b) + 1, Max(a, b))

Ellipsis == <<".", ".", ".">>

\* the success branch of generateResponse
truncateResponse(text, maxLength) ==
  LET response == trim(text)
  IN IF Len(response) > maxLength
     THEN substring(response, 0, maxLength - 3) \o Ellipsis
     ELSE response

\* the texts DeepSeek may return and the limits the schema accepts
ReplyAlphabet == {" ", "a"}
Generated == UNION {[1..n -> ReplyAlphabet] : n \in 0..MaxResponse}
Limits == 1..MaxLimit

NoGen == [pc |-> "idle", maxLength |-> NONE, result |-> <<>>,
          response |-> <<>>, status |-> <<>>]

textFrame == <<schedVars, now, rlVars, retryVars, procVars, storeVars,
               clientVars, llmVars>>

\* generateResponse(mention) under config.maxResponseLength = maxLength,
\* with DeepSeek answering text (success) or failing: the value returned is
\* a string, or null
GenerateResponse(success, text, maxLength) ==
  /\ gen.pc = "idle"
  /\ gen' = [pc |-> "generated", maxLength |-> maxLength,
             result |-> IF success THEN <<text>> ELSE <<>>,
             response |-> IF success /\ text # <<>>
                          THEN <<truncateResponse(text, maxLength)>>
                          ELSE <<>>,
             status |-> <<>>]
  /\ UNCHANGED <<grw, textFrame>>

\* processMention after generateResponseWithRetry: a truthy response goes
\* to postReplyWithRetry -> postReply -> replyToTweet(mentionId, response)
PostGenerated ==
  /\ gen.pc = "generated"
  /\ gen' = [gen EXCEPT !.pc = "done",
                        !.status = IF gen.response # <<>> /\ gen.response[1] # <<>>
                                   THEN gen.response
                                   ELSE <<>>]
  /\ UNCHANGED <<grw, textFrame>>

\* processMention returns
MentionProcessed ==
  /\ gen.pc = "done"
  /\ gen' = [NoGen EXCEPT !.maxLength = gen.maxLength]
  /\ UNCHANGED <<grw, textFrame>>

\* ------------------------------------------- generation with retry
\* how a chat/completions request can end: an answer, an HTTP error status
\* (ApiError) or no answer at all (NetworkError)
DeepSeekOutcomes == {"ok", "apiError", "networkError"}

\* DeepSeekClient.generateBotResponse: its catch turns every error of
\* makeRequest into a result with success = false
generateBotResponse(outcome, text) ==
  IF outcome = "ok"
  THEN [success |-> TRUE, response |-> <<text>>, error |-> "null"]
  ELSE [success |-> FALSE, response |-> <<>>, error |-> outcome]

\* StreamHandler.generateResponse: the string, or null; nothing is thrown
\* (its own catch returns null as well)
generateResponse(result, maxLength) ==
  IF result.success /\ result.response # <<>> /\ result.response[1] # <<>>
  THEN [threw |-> FALSE,
        value |-> <<truncateResponse(result.response[1], maxLength)>>]
  ELSE [threw |-> FALSE, value |-> <<>>]

NoGrw == [pc |-> "idle", attempt |-> 0, requests |-> 0, failure |-> "none",
          result |-> <<>>, maxLength |-> NONE, response |-> <<>>]

\* generateResponseWithRetry(mention) is called
GenerateResponseWithRetry ==
  /\ grw.pc \in {"idle", "done"}
  /\ now <= MaxRetryClock
  /\ grw' = [NoGrw EXCEPT !.pc = "call", !.attempt = 1]
  /\ UNCHANGED <<gen, textFrame>>

\* one pass of the loop body: generateResponse is called and DeepSeek
\* answers; a truthy value or null is returned at once, a thrown error is
\* followed by the backoff sleep and the next pass, or by the end of the loop
TryGenerate(outcome, text, maxLength) ==
  /\ grw.pc = "call"
  /\ LET result == generateBotResponse(outcome, text)
         r == generateResponse(result, maxLength)
         made == [grw EXCEPT !.requests = @ + 1,
                             !.failure = IF result.success THEN "none" ELSE outcome,
                             !.result = result.response,
                             !.maxLength = maxLength]
     IN IF ~r.threw
        THEN /\ grw' = [made EXCEPT
                          !.pc = "done",
                          !.response = IF r.value # <<>> /\ r.value[1] # <<>>
                                       THEN r.value ELSE <<>>]
             /\ now' = now
        ELSE IF RetriesLeft(grw.attempt)
        THEN /\ grw' = [made EXCEPT !.attempt = @ + 1]
             /\ now' = now + BackoffDelay(grw.attempt)
        ELSE /\ grw' = [made EXCEPT !.pc = "done", !.attempt = @ + 1]
             /\ now' = now
  /\ UNCHANGED <<gen, schedVars, rlVars, retryVars, procVars, storeVars,
                 clientVars, llmVars>>

\* ---------------------------------------------------- the DeepSeek client
\* generateBotResponse may be in flight more than once (one call per
\* pollMentions run that is generating)
LlmCalls == 1..MaxConcurrent

\* a call: where it is suspended, its token estimate, the wake-up time of
\* the waitForRateLimit timer, the keys granted to it so far in order, the
\* keys it had to wait for, and whether its chat/completions request was
\* issued
NoLlm == [pc |-> "none", est |-> 0, wakeAt |-> NONE, acquired |-> <<>>,
          waited |-> {}, sent |-> FALSE]

llmFrame == <<schedVars, waiters, rlResult, retryVars, procVars, storeVars,
              clientVars, textVars>>

\* what a bucket has granted so far
Debited(k) == IF k \in DOMAIN buckets THEN buckets[k].debited ELSE 0

\* waitForRateLimit(key, tokens) of call cl with the result r of
\* canMakeRequest: it returns when allowed (the call goes on at pc next),
\* otherwise it arms a timer for waitTime (the call waits at pc wait)
acquire(cl, r, key, next, wait, t) ==
  IF r.allowed
  THEN [cl EXCEPT !.pc = next, !.wakeAt = NONE, !.acquired = Append(@, key)]
  ELSE [cl EXCEPT !.pc = wait, !.wakeAt = t + r.waitTime,
                  !.waited = @ \cup {key}]

\* generateBotResponse(request): estimateTokenUsage gives est, then
\* `await deepseekRateLimiter.waitForTokens(estimatedTokens)`
GenerateBotResponse(c, est) ==
  /\ llm[c].pc = "none"
  /\ LET r == canMakeRequest(buckets, TokensKey, est, now) IN
     /\ buckets' = SetBucket(buckets, TokensKey, r.bucket)
     /\ llm' = [llm EXCEPT ![c] =
           acquire([NoLlm EXCEPT !.est = est], r, TokensKey,
                   "gotTokens", "waitTokens", now)]
  /\ UNCHANGED <<llmStat, now, llmFrame>>

\* the timer of a suspended waitForTokens fires
TokensTimer(c) ==
  /\ llm[c].pc = "waitTokens"
  /\ now >= llm[c].wakeAt
  /\ LET r == canMakeRequest(buckets, TokensKey, llm[c].est, now) IN
     /\ buckets' = SetBucket(buckets, TokensKey, r.bucket)
     /\ llm' = [llm EXCEPT ![c] =
           acquire(@, r, TokensKey, "gotTokens", "waitTokens", now)]
  /\ UNCHANGED <<llmStat, now, llmFrame>>

\* the chat/completions request goes out (makeRequest)
makeRequest(cl) == [cl EXCEPT !.pc = "request", !.sent = TRUE]
CountRequest(cl) ==
  IF cl.pc = "request"
  THEN [requests |-> llmStat.requests + 1, tokens |-> llmStat.tokens + cl.est]
  ELSE llmStat

\* a variant that issues the request without waitForRequest
WaitForRequestSkipped(c) ==
  /\ llm[c].pc = "gotTokens"
  /\ llm' = [llm EXCEPT ![c] = makeRequest(@)]
  /\ llmStat' = CountRequest(llm'[c])
  /\ UNCHANGED <<buckets, now, llmFrame>>

\* `await deepseekRateLimiter.waitForRequest()`, and the request when the
\* unit is granted at once
WaitForRequest(c) ==
  /\ llm[c].pc = "gotTokens"
  /\ LET r == canMakeRequest(buckets, RequestsKey, 1, now)
         cl == acquire(llm[c], r, RequestsKey, "granted", "waitRequest", now)
     IN  /\ buckets' = SetBucket(buckets, RequestsKey, r.bucket)
         /\ llm' = [llm EXCEPT ![c] =
               IF cl.pc = "granted" THEN makeRequest(cl) ELSE cl]
         /\ llmStat' = CountRequest(llm'[c])
  /\ UNCHANGED <<now, llmFrame>>

\* the timer of a suspended waitForRequest fires
RequestTimer(c) ==
  /\ llm[c].pc = "waitRequest"
  /\ now >= llm[c].wakeAt
  /\ LET r == canMakeRequest(buckets, RequestsKey, 1, now)
         cl == acquire(llm[c], r, RequestsKey, "granted", "waitRequest", now)
     IN  /\ buckets' = SetBucket(buckets, RequestsKey, r.bucket)
         /\ llm' = [llm EXCEPT ![c] =
               IF cl.pc = "granted" THEN makeRequest(cl) ELSE cl]
         /\ llmStat' = CountRequest(llm'[c])
  /\ UNCHANGED <<now, llmFrame>>

\* the request is answered or fails, and generateBotResponse returns its
\* result
LlmAnswer(c) ==
  /\ llm[c].pc = "request"
  /\ llm' = [llm EXCEPT ![c] = NoLlm]
  /\ UNCHANGED <<llmStat, buckets, now, llmFrame>>

Init ==
  /\ isRunning = FALSE
  /\ pollInterval = NULL
  /\ lastMentionId = NULL
  /\ processedMentions = {}
  /\ failedMentions = <<>>
  /\ enabled = TRUE
  /\ timers = {}
  /\ nextTimer = 1
  /\ polls = [p \in Slots |-> NoPoll]
  /\ disk = <<>>
  /\ state = loadState(<<>>, 0)
  /\ srv = 0
  /\ kinds = [i \in 1..MaxMentions |-> "ok"]
  /\ replies = [i \in 1..MaxMentions |-> 0]
  /\ now = 0
  /\ lastCtl = "none"
  /\ ev = NoEvent
  /\ buckets = <<>>
  /\ waiters = [w \in Waiters |-> IdleWaiter]
  /\ rlResult = NoResult
  /\ attempt = 0
  /\ rpc = "idle"
  /\ wakeAt = NONE
  /\ lastError = "null"
  /\ rstat = NoStat
  /\ cfg = DefaultConfig
  /\ inbox = <<>>
  /\ pos = 0
  /\ ppc = "idle"
  /\ plog = <<>>
  /\ sop = NoOp
  /\ calls = [c \in CallIds |-> NoCall]
  /\ lookupsOk = 0
  /\ gen = NoGen
  /\ grw = NoGrw
  /\ llm = [c \in LlmCalls |-> NoLlm]
  /\ llmStat = [requests |-> 0, tokens |-> 0]

Next ==
  \/ Start
  \/ Stop
  \/ TimerTick
  \/ \E p \in Slots, ok \in BOOLEAN : LookupResponse(p, ok)
  \/ \E p \in Slots, s \in {TOO_MANY_REQUESTS, UNAUTHORIZED, 0} : FetchError(p, s)
  \/ \E p \in Slots, h \in Headers(now) : FetchResponse(p, h)
  \/ \E p \in Slots, text \in BOOLEAN : GenerateDone(p, text)
  \/ \E p \in Slots, ok \in BOOLEAN : PostDone(p, ok)
  \/ ClearCache
  \/ \E k \in MentionKinds : NewMention(k)
  \/ Restart

\* The scheduler under every interleaving of control calls, timer ticks,
\* network responses, new mentions and restarts
Spec == Init /\ [][Next]_vars

\* The same with a clock that advances and a configuration that changes
NextTimed ==
  \/ Next
  \/ \E b \in BOOLEAN : SetEnabled(b)
  \/ ClockTick

SpecTimed == Init /\ [][NextTimed]_vars

\* The running handler with a clock: timer ticks keep firing, every request
\* is answered, and the clock advances
NextQueue ==
  \/ Start
  \/ TimerTick
  \/ \E p \in Slots : LookupResponse(p, TRUE)
  \/ \E p \in Slots, h \in Headers(now) : FetchResponse(p, h)
  \/ \E p \in Slots, text \in BOOLEAN : GenerateDone(p, text)
  \/ \E p \in Slots, ok \in BOOLEAN : PostDone(p, ok)
  \/ \E k \in MentionKinds : NewMention(k)
  \/ ClockTick

SpecQueue ==
  /\ Init
  /\ [][NextQueue]_vars
  /\ WF_vars(Start)
  /\ WF_vars(TimerTick)
  /\ WF_vars(ClockTick)
  /\ WF_vars(\E p \in Slots : LookupResponse(p, TRUE))
  /\ WF_vars(\E p \in Slots, h \in Headers(now) : FetchResponse(p, h))
  /\ WF_vars(\E p \in Slots, text \in BOOLEAN : GenerateDone(p, text))
  /\ WF_vars(\E p \in Slots, ok \in BOOLEAN : PostDone(p, ok))

\* The scheduler with a configuration whose enabled flag changes
NextConfig ==
  \/ Next
  \/ \E b \in BOOLEAN : SetEnabled(b)

SpecConfig == Init /\ [][NextConfig]_vars

\* The rate limiter under every interleaving of its callers
NextRL ==
  \/ \E k \in Keys, tok \in TokenAmounts : CanMakeRequest(k, tok)
  \/ \E w \in Waiters, k \in Keys, tok \in TokenAmounts : WaitForRateLimit(w, k, tok)
  \/ \E w \in Waiters : TimerFired(w)
  \/ \E k \in Keys : GetStatus(k)
  \/ \E k \in Keys : ResetKey(k)
  \/ RLTick

SpecRL == Init /\ [][NextRL]_vars

\* Blocking callers that ask for any positive amount (estimateTokenUsage
\* puts no ceiling on its estimate), next to non-blocking ones
AcquireAmounts == 1..(Capacity + 1)

NextAcquire ==
  \/ \E w \in Waiters, k \in Keys, tok \in AcquireAmounts : WaitForRateLimit(w, k, tok)
  \/ \E w \in Waiters : TimerFired(w)
  \/ \E k \in Keys, tok \in 1..Capacity : CanMakeRequest(k, tok)
  \/ RLTick

SpecAcquire == Init /\ [][NextAcquire]_vars

\* The retry loop of postReplyWithRetry under every sequence of outcomes
NextRetry ==
  \/ PostReplyWithRetry
  \/ \E o \in PostOutcomes, secs \in ResetAfter : TryPost(o, secs)
  \/ WakeUp

SpecRetry == Init /\ [][NextRetry]_vars

\* One mention of every shape under every configuration of the list
NextMention ==
  \/ \E c \in Configs : SetConfig(c)
  \/ \E resp \in SingleResponses : MentionsFetched(resp)
  \/ \E text \in BOOLEAN : GenerateReturns(text)
  \/ \E ok \in BOOLEAN : PostReturns(ok)
  \/ PollReturns

SpecMention == Init /\ [][NextMention]_vars

\* Batches of several mentions under the default configuration
NextBatch ==
  \/ \E resp \in BatchResponses : MentionsFetched(resp)
  \/ \E text \in BOOLEAN : GenerateReturns(text)
  \/ \E ok \in BOOLEAN : PostReturns(ok)
  \/ PollReturns

SpecBatch == Init /\ [][NextBatch]_vars

\* The state store under every sequence of calls, with writes that may
\* fail, a file that may be damaged, restarts and a clock
NextStore ==
  \/ \E id \in 1..MaxMentions, ok \in BOOLEAN : SetLastMentionId(id, ok)
  \/ \E ok \in BOOLEAN : SetUserId(1, ok)
  \/ \E ok \in BOOLEAN : SetLastPollTime(ok)
  \/ \E sv \in Services, r \in RemainingValues, ok \in BOOLEAN :
        UpdateApiCallsRemaining(sv, r, ok)
  \/ \E sv \in Services, r \in ResetValues, ok \in BOOLEAN :
        UpdateRateLimitReset(sv, r, ok)
  \/ \E sv \in Services, ok \in BOOLEAN : CanMakeApiCall(sv, ok)
  \/ \E f \in {"lastMentionId", "userId"} : GetId(f)
  \/ Reload
  \/ \E c \in DamagedContents : DamageFile(<<c>>)
  \/ DamageFile(<<>>)
  \/ StoreTick

SpecStore == Init /\ [][NextStore]_vars

\* The Twitter client under every interleaving of getMentions and
\* testConnection calls, their timers and the server's answers
ErrorStatuses == {TOO_MANY_REQUESTS, UNAUTHORIZED, 0}

NextClient ==
  \/ \E sinceId \in {NULL, 1} : GetMentions("poll", sinceId)
  \/ GetMentions("test", NULL)
  \/ \E c \in CallIds : SearchTimer(c)
  \/ \E c \in CallIds, st \in {OK} \cup ErrorStatuses, secs \in {1} :
        LookupAnswer(c, st, secs)
  \/ \E c \in CallIds, st \in {OK} \cup ErrorStatuses, secs \in {1},
        h \in Headers(now), newest \in 0..MaxMentions :
        FetchAnswer(c, st, secs, h, newest)
  \/ TestConnection("test")
  \/ \E c \in CallIds, st \in {OK} \cup ErrorStatuses, secs \in {1},
        h \in Headers(now) : ConnectionAnswer(c, st, secs, h)
  \/ \E c \in CallIds : CallReturns(c)
  \/ RLTick

SpecClient == Init /\ [][NextClient]_vars

\* Reply generation for every generated text and every accepted limit
NextText ==
  \/ \E success \in BOOLEAN, text \in Generated, maxLength \in Limits :
        GenerateResponse(success, text, maxLength)
  \/ PostGenerated
  \/ MentionProcessed

SpecText == Init /\ [][NextText]_vars

\* Generation with retry for every DeepSeek outcome, text and limit
NextGenerate ==
  \/ GenerateResponseWithRetry
  \/ \E outcome \in DeepSeekOutcomes, text \in Generated, maxLength \in Limits :
        TryGenerate(outcome, text, maxLength)

SpecGenerate == Init /\ [][NextGenerate]_vars

\* The DeepSeek client under every interleaving of its calls, their timers
\* and the clock
NextLlm ==
  \/ \E c \in LlmCalls, est \in 1..Capacity : GenerateBotResponse(c, est)
  \/ \E c \in LlmCalls : TokensTimer(c)
  \/ \E c \in LlmCalls : WaitForRequest(c)
  \/ \E c \in LlmCalls : RequestTimer(c)
  \/ \E c \in LlmCalls : LlmAnswer(c)
  \/ RLTick

SpecLlm == Init /\ [][NextLlm]_vars

\* ------------------------------------------------------------------ claims
InFlight == {p \in Slots : Active(p)}

\* the lastMentionId a restart would load from the state file
DiskMarker == loadState(disk, now).lastMentionId

\* C1: at most one poll cycle is in flight at any time -- a timer tick that
\* fires while a previous pollMentions call has not returned starts no second
\* one.
C1_OnePollInFlight == Cardinality(InFlight) <= 1

\* C2: once stop() has returned, and until start() is called again, no new
\* poll cycle begins.
C2_NoPollAfterStop ==
  [][(lastCtl = "stop" /\ lastCtl' = "stop")
       => \A p \in Slots : polls'[p].pc # "none" => polls[p].pc # "none"]_vars

\* C3: over any sequence of polls, crashes and restarts at most one reply is
\* posted for a given mention id.
C3_AtMostOneReply == \A m \in 1..MaxMentions : replies[m] <= 1

\* C4: for every resource key the bucket's token count stays within
\* [0, capacity], whatever amounts are requested.
C4_TokensInRange ==
  \A k \in DOMAIN buckets : buckets[k].tokens >= 0 /\ buckets[k].tokens <= CapUnits

\* C5: the tokens granted from a bucket (the sum of the amounts of its
\* allowed requests, blocking or not) never exceed its initial capacity plus
\* what was refilled since it was created, for every interleaving of
\* non-blocking and blocking callers.
C5_NoDoubleSpend ==
  \A k \in DOMAIN buckets :
     buckets[k].debited * RefillDen
       <= CapUnits + RefillNum * (now - buckets[k].createdAt)

\* C5 witness: a bucket drained to the last refilled token while a blocking
\* caller is suspended on it
C5_Witness ==
  \E k \in DOMAIN buckets :
     /\ now > buckets[k].createdAt
     /\ buckets[k].debited * RefillDen
          = CapUnits + RefillNum * (now - buckets[k].createdAt)
     /\ \E w \in Waiters : waiters[w].st = "sleep" /\ waiters[w].key = k

\* C6: the persisted lastMentionId changes only to the newest id of a fetch
\* that completes non-empty in that step, and never to an id older than its
\* previous value.
C6_MarkerMonotone ==
  [][DiskMarker' # DiskMarker
       => /\ DiskMarker' > DiskMarker
          /\ \E p \in Slots : /\ polls[p].pc = "fetch"
                               /\ polls'[p].pc # "fetch"
                               /\ polls[p].snap > polls[p].since
                               /\ polls[p].snap = DiskMarker']_vars

\* C7: when the fetch of a batch fails (quota refusal, 429, 401, network
\* error, failed account-id lookup) the poll cycle ends and lastMentionId is
\* unchanged in the handler, in the state store and on storage.
C7_FetchErrorKeepsMarker ==
  [][ev'.done = "fetchError"
       => /\ lastMentionId' = lastMentionId
          /\ state'.lastMentionId = state.lastMentionId
          /\ DiskMarker' = DiskMarker]_vars

\* C7 witness: a fetch has failed in a process that holds a marker
C7_Witness ==
  /\ ev.done = "fetchError"
  /\ lastMentionId # NULL
  /\ DiskMarker # NULL

\* C9: a rate-limit failure consumes no retry -- the loop gives up only
\* after maxRetries failures that were not rate-limit failures.
C9_RateLimitNotCounted == rpc = "thrown" => rstat.fails >= maxRetries

\* C10: after a 429 whose reset time is R the next attempt is not made
\* before R.
C10_WaitsUntilReset == rpc = "call" => now >= rstat.notBefore

\* C11: when the operation fails k < maxRetries times with errors that are
\* not rate-limit errors and then succeeds, the call returns after k + 1
\* attempts, having slept min(baseDelay * backoffMultiplier^(i-1), maxDelay)
\* after failed attempt i and not after the successful one.
C11_BackoffSchedule ==
  (rpc = "returned" /\ rstat.rateLimited = 0)
    => /\ rstat.fails < maxRetries
       /\ rstat.calls = rstat.fails + 1
       /\ rstat.thrown = <<>>
       /\ Len(rstat.sleeps) = rstat.fails
       /\ \A i \in 1..rstat.fails :
             rstat.sleeps[i]
               = Min(baseDelay * Pow(backoffMultiplier, i - 1), maxDelay)

\* C11 witness: success at the third attempt after two failures
C11_Witness ==
  rpc = "returned" /\ rstat.rateLimited = 0 /\ rstat.fails = 2

\* C12: when every attempt fails with an error that is not a rate-limit
\* error, the operation is invoked exactly maxRetries times, there is no
\* sleep after the last failure, and the call ends by throwing an error
\* that carries the attempt count and the last error; in no state have more
\* than maxRetries attempts been made.
C12_GivesUpAfterMaxRetries ==
  /\ rstat.calls <= maxRetries
  /\ (rpc = "thrown" /\ rstat.rateLimited = 0)
       => /\ rstat.calls = maxRetries
          /\ rstat.fails = maxRetries
          /\ Len(rstat.sleeps) = maxRetries - 1
          /\ wakeAt = NONE
          /\ rstat.thrown = <<[attempts |-> rstat.calls, lastError |-> lastError]>>

\* C12 witness: the call has thrown after failures by a server error only
C12_Witness ==
  /\ rpc = "thrown"
  /\ rstat.rateLimited = 0
  /\ lastError = "Unknown Twitter API error"

\* C13: an authentication failure (HTTP 401) is not retried -- it ends the
\* call at once, without a sleep and without another attempt.
C13_AuthNotRetried ==
  lastError = "Authentication failed" => rpc = "thrown" /\ rstat.calls = 1

\* the mention of the current batch with a given id, the handle of its
\* author (<<>>: unknown), and whether a reply to it was asked for or posted
MentionOf(id) == CHOOSE m \in {inbox[i] : i \in 1..Len(inbox)} : m.id_str = id
AuthorOf(id) == Prop(MentionOf(id).user, "username")
Engaged == {plog[j].id : j \in {i \in 1..Len(plog) : plog[i].op \in {"gen", "post"}}}

\* C14: within a batch (returned newest first) processing of a mention
\* begins only after processing of every older mention of the batch has
\* finished, and mentions are processed one at a time.
C14_OldestFirst ==
  \A j \in 1..Len(plog) :
     plog[j].op = "begin"
       => /\ j > 1 => plog[j - 1].op = "end"
          /\ \A i \in 1..Len(inbox) :
                inbox[i].id_str < plog[j].id
                  => \E k \in 1..(j - 1) : plog[k] = Event("end", inbox[i].id_str)

\* C14 witness: the second mention is begun after a reply to the first one
\* was posted
C14_Witness ==
  \E j \in 1..Len(plog) :
     /\ plog[j] = Event("begin", 2)
     /\ \E k \in 1..(j - 1) : plog[k] = Event("post", 1)

\* the text holds the tag "#h" in some spelling
TagIn(text) ==
  \E i \in 1..(Len(text) - 1) : text[i] = "#" /\ text[i + 1] \in {"h", "H"}

\* C15: for a mention whose text does not contain the required tag neither
\* the response generator nor the poster is called.
C15_NoTagNoCalls ==
  \A id \in Engaged :
     MentionOf(id).text # <<>> /\ TagIn(MentionOf(id).text[1])

\* C15 witness: a mention with a "#" but without the tag was skipped and
\* marked as processed
C15_Witness ==
  /\ ppc = "done"
  /\ Len(inbox) = 1
  /\ inbox[1].text # <<>>
  /\ ~TagIn(inbox[1].text[1])
  /\ \E i \in 1..Len(inbox[1].text[1]) : inbox[1].text[1][i] = "#"
  /\ plog = <<Event("begin", inbox[1].id_str), Event("end", inbox[1].id_str)>>
  /\ inbox[1].id_str \in processedMentions

\* C16: a mention authored by the bot's own account (handles compared
\* without regard to case) leads to no generated and no posted reply.
C16_NoReplyToSelf ==
  \A id \in Engaged :
     AuthorOf(id) = <<>>
       \/ toLowerCase(AuthorOf(id)[1]) # toLowerCase(cfg.username)

\* C17: with the list enabled, a reply is generated or posted in allow mode
\* only for a sender with an enabled entry, and in deny mode only for a
\* sender without an entry.
C17_ListEnforced ==
  cfg.whitelistEnabled
    => \A id \in Engaged :
          LET a == AuthorOf(id) IN
          IF cfg.whitelistMode = "allow"
          THEN /\ a # <<>>
               /\ toLowerCase(a[1]) \in DOMAIN cfg.whitelist
               /\ cfg.whitelist[toLowerCase(a[1])]
          ELSE a = <<>> \/ toLowerCase(a[1]) \notin DOMAIN cfg.whitelist

\* C18: while the configuration says enabled = false no poll cycle starts,
\* no mentions request is sent and no reply is posted.
C18_DisabledDoesNothing ==
  [][(~enabled /\ ~enabled')
       => /\ \A p \in Slots :
               /\ polls[p].pc = "none" => polls'[p].pc = "none"
               /\ polls'[p].pc = "fetch" => polls[p].pc = "fetch"
          /\ replies' = replies]_vars

\* C19: clearCache() empties the dedupe set and the failure map, so that
\* both counts read 0, and leaves the marker in memory, the persisted
\* marker and the running / timer state as they were.
C19_ClearCacheFrame ==
  [][ev'.done = "cleared"
       => /\ processedMentions' = {}
          /\ getStreamStatus'.processedMentionsCount = 0
          /\ getStreamStatus'.failedMentionsCount = 0
          /\ lastMentionId' = lastMentionId
          /\ state' = state
          /\ DiskMarker' = DiskMarker
          /\ isRunning' = isRunning
          /\ pollInterval' = pollInterval
          /\ timers' = timers]_vars

\* C19 witness: the cache was cleared in a running handler that holds a
\* marker
C19_Witness ==
  /\ ev.done = "cleared"
  /\ isRunning
  /\ timers # {}
  /\ lastMentionId # NULL
  /\ DiskMarker # NULL

\* C20: as long as the handler has no marker in memory (after a restart,
\* before its first non-empty fetch) every mentions request is sent with
\* the sinceId found in storage.
C20_ResumeFromStorage ==
  \A p \in Slots :
     (polls[p].pc = "fetch" /\ lastMentionId = NULL)
       => polls[p].since = DiskMarker

\* C20 witness: the first request after a restart carries the stored marker
C20_Witness ==
  \E p \in Slots :
     /\ polls[p].pc = "fetch"
     /\ polls[p].starter
     /\ lastMentionId = NULL
     /\ polls[p].since # NULL
     /\ polls[p].since = DiskMarker

\* a PersistentState record: every field of the default state
ValidRecord(v) == DOMAIN v = DOMAIN DefaultState(0)

\* C21: whenever a mutating setter of the state store (setLastMentionId,
\* setUserId, setLastPollTime, updateApiCallsRemaining,
\* updateRateLimitReset) has returned, the record in the file equals the
\* state in memory, and loading the file yields that state.
C21_WriteThrough ==
  (sop.op \in Setters /\ ~sop.threw)
    => /\ disk = <<state>>
       /\ loadState(disk, now) = state

\* C22: when the file is absent, unreadable, not JSON, or JSON that is not
\* a PersistentState record, loading yields the default state, and no
\* store call made afterwards throws.
C22_CorruptFileTolerated ==
  /\ (sop.op = "load" /\ (disk = <<>> \/ ~ValidRecord(disk[1])))
       => state = DefaultState(now)
  /\ ~sop.threw

\* C23: canMakeApiCall(service) answers true exactly when remaining > 0, or
\* remaining is 0 and the reset time has come; in the second case the
\* counter is reset to the ceiling of the service and the state is written
\* to the file; when it answers false, state and file are unchanged.
C23_CanProceed ==
  [][(sop'.op = "canMakeApiCall" /\ ValidRecord(state))
       => LET sv == sop'.service
              remaining == state.apiCallsRemaining[sv]
              resetAt == state.rateLimitReset[sv]
              expired == remaining = 0 /\ resetAt # NONE /\ now >= resetAt
          IN  /\ ~sop'.threw
              /\ sop'.allowed = (remaining > 0 \/ expired)
              /\ expired => /\ state'.apiCallsRemaining[sv] = Ceiling(sv)
                            /\ disk' = <<state'>>
              /\ ~sop'.allowed => (state' = state /\ disk' = disk)]_vars

\* the getMentions calls that have issued a network request
Requesting == {c \in CallIds : calls[c].kind = "getMentions" /\ calls[c].requests > 0}

\* C24: getMentions issues no network request (users/me or mentions) when
\* the quota check of the state store fails, and every request it issues
\* comes after a successful debit of the search bucket by that call.
C24_DebitBeforeRequest ==
  /\ \A c \in CallIds :
        calls[c].kind = "getMentions"
          => /\ calls[c].outcome = "refused"
                  => calls[c].requests = 0 /\ calls[c].debits = 0
             /\ calls[c].requests > 0 => calls[c].debits >= 1
  /\ Requesting # {}
       => /\ SearchKey \in DOMAIN buckets
          /\ buckets[SearchKey].debited >= Cardinality(Requesting)

\* C24 witness: one call was refused by the quota check while another,
\* first denied by the bucket, has waited, was granted and has its request
\* in flight
C24_Witness ==
  \E c, d \in CallIds :
     /\ calls[c].kind = "getMentions"
     /\ calls[c].pc \in {"lookup", "fetch"}
     /\ calls[c].waits >= 1
     /\ calls[c].debits = 1
     /\ calls[d].kind = "getMentions"
     /\ calls[d].outcome = "refused"

\* C25: when the server answers 429, getMentions makes no further request
\* in that call and throws an error that identifies the rate-limit
\* condition and carries the reset time the server sent.
C25_RateLimitedCarriesReset ==
  \A c \in CallIds :
     (/\ calls[c].kind = "getMentions"
      /\ calls[c].answer # <<>>
      /\ calls[c].answer[1].status = TOO_MANY_REQUESTS)
       => /\ calls[c].pc = "done"
          /\ calls[c].outcome = "threw"
          /\ calls[c].error[1].code = TOO_MANY_REQUESTS
          /\ "reset" \in DOMAIN calls[c].error[1]
          /\ calls[c].error[1].reset = calls[c].answer[1].reset

\* C26: in one process lifetime the account id is looked up over the
\* network at most once, whatever the interleaving of getMentions and
\* testConnection calls.
C26_LookupOnce == lookupsOk <= 1

\* C27: a blocking acquire returns with its tokens debited, whatever the
\* amount -- in particular a caller that was denied, has waited the
\* computed wait time and tries again is granted when the bucket was not
\* debited in between (its wake-up time is the bucket's last refill plus the
\* wait computed from the bucket as it is).
C27_WaitThenGranted ==
  [][\A w \in Waiters :
       (/\ waiters[w].st = "sleep"
        /\ waiters[w].tokens > 0
        /\ waiters'[w] # waiters[w]
        /\ waiters[w].key \in DOMAIN buckets
        /\ waiters[w].wakeAt
             = buckets[waiters[w].key].lastRefill
                 + calculateWaitTime(buckets[waiters[w].key], waiters[w].tokens))
         => waiters'[w].st = "idle"]_vars

\* C28: the text given to replyToTweet never has more than maxResponseLength
\* characters: a generated text within the limit is posted as it is, a
\* longer one as its first maxResponseLength - 3 characters followed by "..."
\* (the generated text is taken without its surrounding whitespace)
C28_PostedWithinLimit ==
  (gen.pc = "done" /\ gen.status # <<>>) =>
      LET text == trim(gen.result[1])
          posted == gen.status[1]
      IN /\ Len(posted) <= gen.maxLength
         /\ Len(text) <= gen.maxLength => posted = text
         /\ Len(text) > gen.maxLength =>
               posted = SubSeq(text, 1, gen.maxLength - 3) \o Ellipsis

\* C29: start() on a running handler is a no-op -- the call returns with a
\* warning, and no poll is begun, no timer registered and no field of the
\* handler or of the store changed
C29_StartIdempotent ==
  [][(isRunning /\ ev'.done = "alreadyRunning")
       => UNCHANGED <<isRunning, pollInterval, timers, nextTimer, polls,
                      state, disk, lastMentionId, processedMentions,
                      failedMentions, replies>>]_vars

\* C29 witness: start() was called on a running handler whose timer is
\* registered and which has a poll in flight
C29_Witness ==
  /\ isRunning
  /\ ev.done = "alreadyRunning"
  /\ Cardinality(timers) = 1
  /\ \E p \in Slots : Active(p)

\* C30: in a poll that fetched mentions the marker is set, in memory and in
\* the store and its file, to the newest fetched id by the step that begins
\* the batch, and no step changes it while that batch is being processed
InBatch(pr) == pr.pc \in {"gen", "post"}

C30_MarkerSetBeforeBatch ==
  [][\A p \in Slots :
       /\ (polls[p].pc = "fetch" /\ InBatch(polls'[p])) =>
             /\ lastMentionId' = polls[p].snap
             /\ state'.lastMentionId = polls[p].snap
             /\ DiskMarker' = polls[p].snap
       /\ (InBatch(polls[p]) /\ InBatch(polls'[p])) =>
             /\ lastMentionId' = lastMentionId
             /\ state'.lastMentionId = state.lastMentionId
             /\ DiskMarker' = DiskMarker]_vars

\* C31: when generation for a mention fails with an ApiError or a
\* NetworkError it is attempted again, maxRetries times in all, before
\* generateResponseWithRetry gives up
C31_GenerationRetried ==
  (grw.pc = "done" /\ grw.failure \in {"apiError", "networkError"})
     => grw.requests = maxRetries

\* C32: when processMention ends for a mention without a reply because
\* generation returned nothing or posting threw, the mention is in the
\* failure map and is not put into the set of processed mentions
NoReplyStep(p) ==
  /\ polls'[p] # polls[p]
  /\ lastCtl' = lastCtl
  /\ \/ polls[p].pc = "gen" /\ polls'[p].pc # "post"
     \/ polls[p].pc = "post" /\ replies' = replies

C32_FailureRecorded ==
  [][\A p \in Slots :
       NoReplyStep(p) =>
          /\ polls[p].cur \in DOMAIN failedMentions'
          /\ polls[p].cur \notin processedMentions']_vars

\* C33: except by clearCache (or the end of the process) the dedupe set only
\* grows; a mention whose id is in the set is not handed to
\* generateResponseWithRetry or postReplyWithRetry; and a reply is posted
\* only for a mention that is not in the set -- so at most once per id
C33_DedupeRespected ==
  [][/\ (ev'.done # "cleared" /\ lastCtl' # "none")
          => processedMentions \subseteq processedMentions'
     /\ \A p \in Slots :
          (InBatch(polls'[p]) /\ polls'[p] # polls[p])
             => polls'[p].cur \notin processedMentions
     /\ \A m \in 1..MaxMentions :
          replies'[m] # replies[m] => m \notin processedMentions]_vars

C35_OneTimerAndStopCancels ==
  /\ Cardinality(timers) <= 1
  /\ lastCtl = "stop" => timers = {}

\* C36: the stored marker advances only by a getMentions call whose caller
\* hands every fetched mention to processMention; that is pollMentions
\* ("poll"), while testBot ("test") only reads mentions.length
HandsToProcessing(c) == c = "poll"

C36_MarkerAdvanceIsProcessed ==
  [][\A c \in CallIds :
       (/\ calls[c].pc = "fetch"
        /\ calls'[c].pc = "done"
        /\ state'.lastMentionId # state.lastMentionId)
          => HandsToProcessing(c)]_vars

\* C37: exhaustion is never permanent -- whenever the stored remaining
\* count of a service is 0 there is a time, now or later, at which
\* canMakeApiCall(service) answers true, also when no reset time is stored
LaterTimes ==
  {k * ClockStep : k \in 0..((MaxTime \div ClockStep) + 1)} \cap
  {t \in 0..(MaxTime + ClockStep) : t >= now}

C37_ExhaustionEnds ==
  ValidRecord(state) =>
     \A s \in Services :
        state.apiCallsRemaining[s] <= 0 =>
           \E t \in LaterTimes : canMakeApiCall(state, disk, s, TRUE, t).allowed

\* processMention returns in this step for the mention of poll p
ProcessMentionReturns(p) ==
  /\ polls'[p] # polls[p]
  /\ lastCtl' = lastCtl
  /\ polls[p].pc \in {"gen", "post"}
  /\ ~(polls[p].pc = "gen" /\ polls'[p].pc = "post")

\* C38: when processMention returns for a mention its id is in exactly one
\* of processedMentions and failedMentions, and every record of
\* failedMentions has fewer than maxRetries retries
C38_ExactlyOneOfProcessedAndFailed ==
  /\ [][\A p \in Slots :
          ProcessMentionReturns(p) =>
             LET id == polls[p].cur IN
             (id \in processedMentions') # (id \in DOMAIN failedMentions')]_vars
  /\ [](\A m \in DOMAIN failedMentions : failedMentions[m].retries < maxRetries)

\* the record of mention m is in the retry queue and its time has come
ReadyForRetry(m) ==
  /\ m \in DOMAIN failedMentions
  /\ failedMentions[m].nextRetry <= now

\* C39: while timer ticks keep firing, every record of failedMentions whose
\* nextRetry has passed is removed by the next poll, also by a poll that
\* finds no new mention: when a poll has just ended without an error, no
\* record that is ready for retry is left in the queue
C39_ReadyRecordsRemoved ==
  ev.done \in {"ok", "empty"} =>
     \A m \in 1..MaxMentions : ~ReadyForRetry(m)

\* C40: for every list and mode isWhitelisted(handle) follows the rule: true
\* when the list is disabled; in allow mode true exactly when the handle has
\* an enabled entry; in deny mode false exactly when the handle has an
\* enabled entry, so that a disabled entry blocks nobody
C40_IsWhitelistedFollowsRule ==
  \A h \in Handles :
     LET name == toLowerCase(h)
         hasEnabledEntry == name \in DOMAIN cfg.whitelist /\ cfg.whitelist[name]
     IN  isWhitelisted(cfg, h) =
           IF ~cfg.whitelistEnabled THEN TRUE
           ELSE IF cfg.whitelistMode = "allow" THEN hasEnabledEntry
           ELSE ~hasEnabledEntry

\* C8: an error in processing one mention never aborts the batch -- when a
\* poll cycle ends, no mention behind a failed one is left unprocessed.
C8_BatchNeverAborted == ev.left <= 1

====
